---- MODULE Spec2Model ----
(***************************************************************************)
(* Turbine placement generator (python_service/generate_turbines.py) and   *)
(* the serving side's artifact loader (python_service/main.py).            *)
(*                                                                         *)
(* Coordinates are fixed-point integers.  One coordinate unit is the       *)
(* resolution of a drawn candidate; distance thresholds are kept in        *)
(* 1/DistScale of a coordinate unit so that the 0.9 relaxation is exact    *)
(* for the thresholds used.  round(x, 6) is a half-even rounding to a      *)
(* multiple of Grain units; the floor 0.003 stays larger than the          *)
(* displacement a rounding can cause, as in the program.                   *)
(***************************************************************************)
EXTENDS Integers, Sequences, FiniteSets, Bags, TLC

VARIABLES
    \* sample_distributed_points: arguments and locals
    count, zone_bbox, min_dist, points, current_min_dist, added_before,
    trial, spc,
    \* history of the sampler call: the unrounded candidate of every accepted
    \* point, the threshold and number of relaxations at its acceptance
    accept_log, relaxations,
    \* generate_turbines: clusters_config and the number of clusters, locals
    \* and position
    config, n_zones, pc, cluster_id, turbines, turbine_id, pt_i, shuffle_i, metadata,
    \* history: the list as it was when the shuffle began
    pre_shuffle,
    \* the random module: seed given to random.seed and the values the
    \* seeded stream is already known to produce next
    rng,
    \* what the stream of a seed produced in an earlier run of the process
    tape,
    \* runs of generate_turbines: index of the current run, number of runs,
    \* output_data of the first run
    run, runs_total, first_out,
    \* wall clock, data directory and data/turbines.json
    clock, dir_exists, file,
    \* load_turbines: module globals, locals and position
    turbines_cache, turbines_mtime, lpc, current_mtime, observed,
    load_result

samplerVars  == <<count, zone_bbox, min_dist, points, current_min_dist,
                  added_before, trial, spc, accept_log, relaxations>>
genVars      == <<config, n_zones, pc, cluster_id, turbines, turbine_id, pt_i, shuffle_i,
                  metadata, pre_shuffle>>
rngVars      == <<rng, tape>>
runVars      == <<run, runs_total, first_out>>
fileVars     == <<dir_exists, file>>
consumerVars == <<turbines_cache, turbines_mtime, lpc, current_mtime,
                  observed, load_result>>
vars == <<samplerVars, genVars, rngVars, runVars, clock, fileVars,
          consumerVars>>

----------------------------------------------------------------------------
(* Bounds and scaled program constants *)

MaxCount    == 3        \* largest count argument of a direct sampler call
TrialBudget == 2        \* range(12000), scaled
NZones      == 3        \* range(7), scaled: the first NZones clusters run
ReplayZones == 2        \* clusters of a run that is repeated with its seed
ServeZones  == 1        \* clusters of a run that a consumer reads beside
MaxClock    == 2        \* the wall clock stops advancing here

DistScale   == 1000     \* threshold units per coordinate unit
Floor       == 3000     \* 0.003: three coordinate units
Grain       == 2        \* round(x, 6): stored coordinates are multiples
CapGrain    == 10       \* round(x, 2) on capacities kept in 1/1000 MW
Seed        == 42

None == [none |-> TRUE]

----------------------------------------------------------------------------
(* Geometry *)

\* zealand_polygon, (lon, lat) vertices
zealand_polygon ==
    << <<1, 0>>, <<6, 0>>, <<6, 2>>, <<4, 4>>, <<1, 4>> >>

\* One edge of the ray cast: (yi > lat) != (yj > lat) and
\* lon < (xj - xi) * (lat - yi) / ((yj - yi) + 1e-12) + xi.
\* On integers the quotient is compared by cross-multiplication; the 1e-12
\* in the denominator decides the case where the point is exactly on the
\* edge line: the quotient moves away from 0 when yj < yi and towards 0
\* when yj > yi, so the comparison is true there exactly when the
\* numerator is negative.
Intersects(lon, lat, xi, yi, xj, yj) ==
    LET D == yj - yi
        N == (xj - xi) * (lat - yi)
        L == lon - xi
    IN  /\ (yi > lat) # (yj > lat)
        /\ IF D > 0
           THEN (L * D < N) \/ (L * D = N /\ N < 0)
           ELSE (L * D > N) \/ (L * D = N /\ N < 0)

RECURSIVE RayCast(_, _, _, _, _, _)
RayCast(lon, lat, polygon, i, j, inside) ==
    IF i > Len(polygon) THEN inside
    ELSE LET hit == Intersects(lon, lat, polygon[i][1], polygon[i][2],
                               polygon[j][1], polygon[j][2])
         IN  RayCast(lon, lat, polygon, i + 1, i,
                     IF hit THEN ~inside ELSE inside)

point_in_polygon(lon, lat, polygon) ==
    RayCast(lon, lat, polygon, 1, Len(polygon), FALSE)

\* round(): to the nearest multiple of g, ties to the even multiple
RoundTo(x, g) ==
    LET q == x \div g
        r == x % g
    IN  IF 2 * r < g THEN q * g
        ELSE IF 2 * r > g THEN (q + 1) * g
        ELSE IF q % 2 = 0 THEN q * g ELSE (q + 1) * g

Round6(x) == RoundTo(x, Grain)

\* (lat - p_lat) ** 2 + (lon - p_lon) ** 2
Dist2(lat, lon, p) == (lat - p[1]) * (lat - p[1]) + (lon - p[2]) * (lon - p[2])

\* variant: the squared distance is compared with the unsquared threshold
TooCloseUnsquared(lat, lon, p, m) == Dist2(lat, lon, p) * DistScale < m

\* the acceptance test of a candidate against every stored point
TooClose(lat, lon, p, m) == Dist2(lat, lon, p) * DistScale * DistScale < m * m

\* variant: the spacing test is left out
FarEnoughAlways(lat, lon, pts, m) == TRUE

\* variant: the candidate is compared with the points of its own epoch only
FarEnoughThisEpoch(lat, lon, pts, m) ==
    \A k \in 1..Len(pts) :
        accept_log[k].epoch = relaxations => ~TooClose(lat, lon, pts[k], m)

FarEnough(lat, lon, pts, m) ==
    \A k \in 1..Len(pts) : ~TooClose(lat, lon, pts[k], m)

\* variant: the threshold is not relaxed
RelaxNot(m) == m

\* current_min_dist *= 0.9
Relax(m) == (m * 9) \div 10

----------------------------------------------------------------------------
(* The random module *)

\* A value v returned by the random module.  The stream of a seed is fixed:
\* what an earlier run seeded alike has drawn (rng.ahead) comes again in the
\* same order; anything beyond that is free.
DrawOk(v) == rng.ahead # <<>> => v = Head(rng.ahead)

Recording == run < runs_total /\ rng.seed = tape.seed /\ rng.ahead = <<>>

Draw(v) ==
    /\ DrawOk(v)
    /\ rng' = [rng EXCEPT !.ahead = IF @ = <<>> THEN @ ELSE Tail(@)]
    /\ tape' = IF Recording THEN [tape EXCEPT !.vals = Append(@, v)] ELSE tape

\* random.seed(s): the stream restarts; the part of it already on record
\* for this seed is what it will produce again
Seeded(s) == [seed |-> s, ahead |-> IF tape.seed = s THEN tape.vals ELSE <<>>]

----------------------------------------------------------------------------
(* sample_distributed_points *)

\* lines 29-31: the locals at entry
SamplerEntry(c, box, d) ==
    /\ count' = c
    /\ zone_bbox' = box
    /\ min_dist' = d
    /\ points' = <<>>
    /\ current_min_dist' = d
    /\ added_before' = 0
    /\ trial' = 0
    /\ accept_log' = <<>>
    /\ relaxations' = 0
    /\ spc' = "while"

\* line 33-34: while len(points) < count: added_before = len(points)
WhileTest ==
    /\ spc = "while"
    /\ IF Len(points) < count
       THEN /\ added_before' = Len(points)
            /\ trial' = 0
            /\ spc' = "for"
       ELSE /\ spc' = "returned"
            /\ UNCHANGED <<added_before, trial>>
    /\ UNCHANGED <<count, zone_bbox, min_dist, points, current_min_dist,
                   accept_log, relaxations>>
    /\ UNCHANGED <<genVars, rngVars, runVars, clock, fileVars, consumerVars>>

\* lines 49-52: the accepted candidate is stored rounded
Accepted(lat, lon) == Append(points, <<Round6(lat), Round6(lon)>>)

\* variant: the loop is left one point late
BreakLate(pts) == Len(pts) > count

\* line 51: if len(points) >= count: break
BreakNow(pts) == Len(pts) >= count

\* variant: the land mask is left out
AcceptableAnywhere(lat, lon) == FarEnough(lat, lon, points, current_min_dist)

\* lines 40-49: the candidate passes the land mask and the spacing test
Acceptable(lat, lon) ==
    /\ point_in_polygon(lon, lat, zealand_polygon)
    /\ FarEnough(lat, lon, points, current_min_dist)

\* lines 36-52: one pass of the for loop body
Trial ==
    /\ spc = "for"
    /\ \E lat \in zone_bbox[3]..zone_bbox[4], lon \in zone_bbox[1]..zone_bbox[2] :
          /\ Draw(<<lat, lon>>)
          /\ trial' = trial + 1
          /\ IF Acceptable(lat, lon)
             THEN /\ points' = Accepted(lat, lon)
                  /\ accept_log' = Append(accept_log,
                        [lat |-> lat, lon |-> lon, thr |-> current_min_dist,
                         epoch |-> relaxations])
                  /\ spc' = IF BreakNow(points') \/ trial' = TrialBudget
                            THEN "afterfor" ELSE "for"
             ELSE /\ UNCHANGED <<points, accept_log>>
                  /\ spc' = IF trial' = TrialBudget THEN "afterfor" ELSE "for"
    /\ UNCHANGED <<count, zone_bbox, min_dist, current_min_dist, added_before,
                   relaxations>>
    /\ UNCHANGED <<genVars, runVars, clock, fileVars, consumerVars>>

\* variant: every outer pass counts as stagnant
StagnantAlways == TRUE

\* line 54: if len(points) == added_before
Stagnant == Len(points) = added_before

\* line 57: if current_min_dist < 0.003
BelowFloor(m) == m < Floor

\* variant: below the floor the call returns what it has instead of raising
AfterForGiveUp ==
    /\ spc = "afterfor"
    /\ current_min_dist' = IF Stagnant THEN Relax(current_min_dist)
                           ELSE current_min_dist
    /\ relaxations' = IF Stagnant THEN relaxations + 1 ELSE relaxations
    /\ spc' = IF BelowFloor(current_min_dist') THEN "returned" ELSE "while"
    /\ UNCHANGED <<count, zone_bbox, min_dist, points, added_before, trial,
                   accept_log>>
    /\ UNCHANGED <<genVars, rngVars, runVars, clock, fileVars, consumerVars>>

\* lines 54-58: relaxation and the floor test that ends each outer pass
AfterFor ==
    /\ spc = "afterfor"
    /\ current_min_dist' = IF Stagnant THEN Relax(current_min_dist)
                           ELSE current_min_dist
    /\ relaxations' = IF Stagnant THEN relaxations + 1 ELSE relaxations
    /\ spc' = IF BelowFloor(current_min_dist') THEN "raised" ELSE "while"
    /\ UNCHANGED <<count, zone_bbox, min_dist, points, added_before, trial,
                   accept_log>>
    /\ UNCHANGED <<genVars, rngVars, runVars, clock, fileVars, consumerVars>>

----------------------------------------------------------------------------
(* generate_turbines *)

\* clusters_config, scaled: zone is (lon_min, lon_max, lat_min, lat_max)
clusters_config ==
    [i \in 0..6 |->
        CASE i = 0 -> [count |-> 1, name |-> "Zealand North",
                       zone |-> <<4, 5, 3, 4>>, min_dist |-> 3000]
          [] i = 1 -> [count |-> 1, name |-> "Zealand Northeast",
                       zone |-> <<2, 3, 0, 0>>, min_dist |-> 4000]
          [] i = 2 -> [count |-> 2, name |-> "Zealand East",
                       zone |-> <<1, 5, 2, 2>>, min_dist |-> 3000]
          [] i = 3 -> [count |-> 1, name |-> "Zealand Central",
                       zone |-> <<3, 4, 0, 0>>, min_dist |-> 4000]
          [] i = 4 -> [count |-> 1, name |-> "Zealand West",
                       zone |-> <<1, 2, 2, 3>>, min_dist |-> 3000]
          [] i = 5 -> [count |-> 1, name |-> "Zealand Southwest",
                       zone |-> <<2, 3, 1, 1>>, min_dist |-> 4000]
          [] i = 6 -> [count |-> 1, name |-> "Zealand South",
                       zone |-> <<5, 6, 1, 2>>, min_dist |-> 4000]]

\* clusters_config of a lighter plan: every cluster asks for one point
light_config ==
    [i \in 0..6 |->
        IF i = 2 THEN [clusters_config[3] EXCEPT !.name = "Zealand East"]
        ELSE IF i = 3 THEN [clusters_config[4] EXCEPT !.name = "Zealand Central"]
        ELSE IF i = 4 THEN [clusters_config[5] EXCEPT !.name = "Zealand West"]
        ELSE clusters_config[i]]

\* for cluster_id in range(n): the clusters that are run
FirstClusters(cfg, n) == [i \in 0..(n - 1) |-> cfg[i]]

\* random.uniform(2.0, 4.5) in 1/1000 MW: the values a draw can take here
CapacityDraws == {2004, 4496}

DigitChar(d) == <<"0", "1", "2", "3", "4", "5", "6", "7", "8", "9">>[d + 1]

RECURSIVE Decimal(_)
Decimal(n) == IF n < 10 THEN <<DigitChar(n)>>
              ELSE Append(Decimal(n \div 10), DigitChar(n % 10))

RECURSIVE ZeroPad(_, _)
ZeroPad(str, width) == IF Len(str) >= width THEN str
                       ELSE ZeroPad(<<"0">> \o str, width)

\* variant: the number is not padded, f"T{turbine_id}"
FormatIdUnpadded(n) == <<"T">> \o Decimal(n)

\* f"T{turbine_id:03d}"
FormatId(n) == <<"T">> \o ZeroPad(Decimal(n), 3)

\* lines 152-158
NewTurbine(id, cid, p, cap) ==
    [turbineId |-> FormatId(id), clusterId |-> cid, latitude |-> p[1],
     longitude |-> p[2], capacity |-> RoundTo(cap, CapGrain)]

\* line 172
TotalTurbines(ts) == Len(ts)

\* line 173
ClusterDistribution == [i \in 0..(n_zones - 1) |-> config[i].count]

\* lines 170-176
Metadata(ts) ==
    [generated_at |-> clock,
     total_turbines |-> TotalTurbines(ts),
     cluster_distribution |-> ClusterDistribution,
     regions |-> [i \in 0..(n_zones - 1) |-> config[i].name],
     capacity_range_mw |-> <<2000, 4500>>]

\* line 179
output_data == [metadata |-> metadata, turbines |-> turbines]

\* json.dump(output_data, f, indent=2): the text, in the pieces it is
\* written in
JsonDump(data) ==
    << [kind |-> "open"], [kind |-> "metadata", v |-> data.metadata] >>
    \o [k \in 1..Len(data.turbines) |-> [kind |-> "turbine", v |-> data.turbines[k]]]
    \o << [kind |-> "close"] >>

\* json.load: a text that does not end the top-level object does not parse
JsonParses(text) ==
    /\ Len(text) >= 3
    /\ text[1].kind = "open"
    /\ text[2].kind = "metadata"
    /\ text[Len(text)].kind = "close"
    /\ \A k \in 3..(Len(text) - 1) : text[k].kind = "turbine"

JsonLoad(text) ==
    [metadata |-> text[2].v,
     turbines |-> [k \in 1..(Len(text) - 3) |-> text[k + 2].v]]

Absent == [exists |-> FALSE, content |-> <<>>, mtime |-> 0]

\* an artifact left by an earlier generation
PrevArtifact ==
    [exists |-> TRUE, mtime |-> 0,
     content |-> JsonDump(
        [metadata |-> [generated_at |-> 0, total_turbines |-> 1,
                       cluster_distribution |-> [i \in 0..0 |-> 1],
                       regions |-> [i \in 0..0 |-> "Zealand North"],
                       capacity_range_mw |-> <<2000, 4500>>],
         turbines |-> << NewTurbine(0, 0, <<2, 2>>, 3255) >>])]

\* variant: random.seed() without the constant, seeded from the time
SeedFromClock == clock

\* line 89: random.seed(42)
SeedValue == Seed

\* line 89 and lines 137-138
Start ==
    /\ pc = "pending"
    /\ rng' = Seeded(SeedValue)
    /\ tape' = IF run = 1 THEN [seed |-> SeedValue, vals |-> <<>>] ELSE tape
    /\ turbines' = <<>>
    /\ turbine_id' = 0
    /\ cluster_id' = 0
    /\ pc' = "zone"
    /\ UNCHANGED <<config, n_zones, pt_i, shuffle_i, metadata, pre_shuffle>>
    /\ UNCHANGED <<samplerVars, runVars, clock, fileVars, consumerVars>>

\* lines 141-149: the next cluster's sampler call
CallSampler ==
    /\ pc = "zone"
    /\ cluster_id < n_zones
    /\ SamplerEntry(config[cluster_id].count,
                    config[cluster_id].zone,
                    config[cluster_id].min_dist)
    /\ pc' = "sampling"
    /\ UNCHANGED <<config, n_zones, cluster_id, turbines, turbine_id, pt_i, shuffle_i,
                   metadata, pre_shuffle>>
    /\ UNCHANGED <<rngVars, runVars, clock, fileVars, consumerVars>>

\* the position after the body of the cluster loop for cluster cid
AfterCluster(cid) == IF cid + 1 < n_zones THEN "zone" ELSE "assembled"

\* line 144 returns, line 151 starts
SamplerReturn ==
    /\ pc = "sampling"
    /\ spc = "returned"
    /\ IF points = <<>>
       THEN /\ cluster_id' = cluster_id + 1
            /\ pc' = AfterCluster(cluster_id)
            /\ pt_i' = pt_i
       ELSE /\ pt_i' = 1
            /\ pc' = "assign"
            /\ cluster_id' = cluster_id
    /\ spc' = "idle"
    /\ UNCHANGED <<count, zone_bbox, min_dist, points, current_min_dist,
                   added_before, trial, accept_log, relaxations>>
    /\ UNCHANGED <<config, n_zones, turbines, turbine_id, shuffle_i, metadata,
                   pre_shuffle>>
    /\ UNCHANGED <<rngVars, runVars, clock, fileVars, consumerVars>>

\* variant: the error is caught and the cluster skipped
SamplerRaiseSwallowed ==
    /\ pc = "sampling"
    /\ spc = "raised"
    /\ cluster_id' = cluster_id + 1
    /\ pc' = AfterCluster(cluster_id)
    /\ spc' = "idle"
    /\ UNCHANGED <<count, zone_bbox, min_dist, points, current_min_dist,
                   added_before, trial, accept_log, relaxations>>
    /\ UNCHANGED <<config, n_zones, turbines, turbine_id, pt_i, shuffle_i,
                   metadata, pre_shuffle>>
    /\ UNCHANGED <<rngVars, runVars, clock, fileVars, consumerVars>>

\* line 58 raises out of line 144: generate_turbines ends with the error
SamplerRaise ==
    /\ pc = "sampling"
    /\ spc = "raised"
    /\ pc' = "failed"
    /\ spc' = "idle"
    /\ UNCHANGED <<count, zone_bbox, min_dist, points, current_min_dist,
                   added_before, trial, accept_log, relaxations>>
    /\ UNCHANGED <<config, n_zones, cluster_id, turbines, turbine_id, pt_i, shuffle_i,
                   metadata, pre_shuffle>>
    /\ UNCHANGED <<rngVars, runVars, clock, fileVars, consumerVars>>

\* lines 151-160: one turbine per returned point
AssignTurbine ==
    /\ pc = "assign"
    /\ \E cap \in CapacityDraws :
          /\ Draw(cap)
          /\ turbines' = Append(turbines,
                NewTurbine(turbine_id, cluster_id, points[pt_i], cap))
    /\ turbine_id' = turbine_id + 1
    /\ IF pt_i < Len(points)
       THEN /\ pt_i' = pt_i + 1
            /\ UNCHANGED <<pc, cluster_id>>
       ELSE /\ pt_i' = pt_i
            /\ cluster_id' = cluster_id + 1
            /\ pc' = AfterCluster(cluster_id)
    /\ UNCHANGED <<config, n_zones, shuffle_i, metadata, pre_shuffle>>
    /\ UNCHANGED <<samplerVars, runVars, clock, fileVars, consumerVars>>

\* x[i], x[j] = x[j], x[i]
Swap(x, i, j) == [x EXCEPT ![i] = x[j], ![j] = x[i]]

\* line 163, random.shuffle: for i from the last index down to the second,
\* j = randbelow(i + 1), swap
Shuffle ==
    /\ pc \in {"assembled", "shuffle"}
    /\ pre_shuffle' = IF pc = "assembled" THEN turbines ELSE pre_shuffle
    /\ LET i == IF pc = "assembled" THEN Len(turbines) ELSE shuffle_i
       IN  IF i <= 1
           THEN /\ pc' = "finalized"
                /\ UNCHANGED <<turbines, shuffle_i, rngVars>>
           ELSE /\ \E j \in 1..i :
                      /\ Draw(j)
                      /\ turbines' = Swap(turbines, i, j)
                /\ shuffle_i' = i - 1
                /\ pc' = IF i - 1 <= 1 THEN "finalized" ELSE "shuffle"
    /\ UNCHANGED <<config, n_zones, cluster_id, turbine_id, pt_i, metadata>>
    /\ UNCHANGED <<samplerVars, runVars, clock, fileVars, consumerVars>>

\* lines 166-179: output directory and metadata
Finalize ==
    /\ pc = "finalized"
    /\ dir_exists' = TRUE
    /\ metadata' = Metadata(turbines)
    /\ pc' = "open"
    /\ UNCHANGED <<config, n_zones, cluster_id, turbines, turbine_id, pt_i, shuffle_i,
                   pre_shuffle>>
    /\ UNCHANGED <<samplerVars, rngVars, runVars, clock, file, consumerVars>>

\* line 183: open(output_path, "w") creates or empties the file
OpenFile ==
    /\ pc = "open"
    /\ file' = [exists |-> TRUE, content |-> <<>>, mtime |-> clock]
    /\ pc' = "writing"
    /\ UNCHANGED <<config, n_zones, cluster_id, turbines, turbine_id, pt_i, shuffle_i,
                   metadata, pre_shuffle>>
    /\ UNCHANGED <<samplerVars, rngVars, runVars, clock, dir_exists,
                   consumerVars>>

\* line 184: the text reaches the file piece by piece; the with block
\* closes the file after the last one
WriteChunk ==
    /\ pc = "writing"
    /\ LET text == JsonDump(output_data)
           k    == Len(file.content) + 1
       IN  /\ file' = [file EXCEPT !.content = Append(@, text[k]),
                                   !.mtime = clock]
           /\ pc' = IF k = Len(text) THEN "done" ELSE "writing"
    /\ UNCHANGED <<config, n_zones, cluster_id, turbines, turbine_id, pt_i, shuffle_i,
                   metadata, pre_shuffle>>
    /\ UNCHANGED <<samplerVars, rngVars, runVars, clock, dir_exists,
                   consumerVars>>

\* the script is run again: a new process, the same code
Rerun ==
    /\ pc \in {"done", "failed"}
    /\ run < runs_total
    /\ first_out' = IF pc = "done"
                    THEN [failed |-> FALSE, zone |-> n_zones,
                          assembled |-> pre_shuffle, output |-> output_data]
                    ELSE [failed |-> TRUE, zone |-> cluster_id,
                          assembled |-> <<>>, output |-> None]
    /\ run' = run + 1
    /\ pc' = "pending"
    /\ UNCHANGED <<config, n_zones, cluster_id, turbines, turbine_id, pt_i, shuffle_i,
                   metadata, pre_shuffle, runs_total>>
    /\ UNCHANGED <<samplerVars, rngVars, clock, fileVars, consumerVars>>

Tick ==
    /\ clock < MaxClock
    /\ clock' = clock + 1
    /\ UNCHANGED <<samplerVars, genVars, rngVars, runVars, fileVars,
                   consumerVars>>

----------------------------------------------------------------------------
(* load_turbines (main.py) *)

\* Turbine(id=item["turbineId"], name=item["turbineId"], ...)
Turbine(item) ==
    [id |-> item.turbineId, name |-> item.turbineId,
     latitude |-> item.latitude, longitude |-> item.longitude,
     clusterId |-> item.clusterId, capacity |-> item.capacity]

CharCode(c) ==
    CASE c = "0" -> 48 [] c = "1" -> 49 [] c = "2" -> 50 [] c = "3" -> 51
      [] c = "4" -> 52 [] c = "5" -> 53 [] c = "6" -> 54 [] c = "7" -> 55
      [] c = "8" -> 56 [] c = "9" -> 57 [] c = "T" -> 84

\* str < str
RECURSIVE StrLess(_, _)
StrLess(a, b) ==
    IF b = <<>> THEN FALSE
    ELSE IF a = <<>> THEN TRUE
    ELSE IF Head(a) = Head(b) THEN StrLess(Tail(a), Tail(b))
    ELSE CharCode(Head(a)) < CharCode(Head(b))

\* sorted(..., key=lambda t: t.id): stable
RECURSIVE InsertById(_, _)
InsertById(t, sorted) ==
    IF sorted = <<>> THEN <<t>>
    ELSE IF StrLess(t.id, Head(sorted).id) THEN <<t>> \o sorted
    ELSE <<Head(sorted)>> \o InsertById(t, Tail(sorted))

RECURSIVE SortedById(_)
SortedById(ts) ==
    IF ts = <<>> THEN <<>>
    ELSE InsertById(ts[Len(ts)], SortedById(SubSeq(ts, 1, Len(ts) - 1)))

\* lines 84-97
BuildCache(data) ==
    SortedById([k \in 1..Len(data.turbines) |-> Turbine(data.turbines[k])])

\* _turbines_cache: None or a list; _turbines_mtime: None or a time
NoCache    == [is_none |-> TRUE, list |-> <<>>]
Cached(ts) == [is_none |-> FALSE, list |-> ts]
NoMtime    == -1

\* what a call ends with: HTTPException or an uncaught error, or the list
HttpError  == [status |-> "error", turbines |-> <<>>]
Loaded(ts) == [status |-> "ok", turbines |-> ts]
NotCalled  == [status |-> "none", turbines |-> <<>>]
NothingRead == [read |-> FALSE, text |-> <<>>]

\* lines 73-77: existence test and stat
LoadStat ==
    /\ lpc = "idle"
    /\ IF ~file.exists
       THEN /\ load_result' = HttpError
            /\ UNCHANGED <<lpc, current_mtime>>
       ELSE /\ current_mtime' = file.mtime
            /\ lpc' = "statted"
            /\ UNCHANGED load_result
    /\ UNCHANGED <<turbines_cache, turbines_mtime, observed>>
    /\ UNCHANGED <<samplerVars, genVars, rngVars, runVars, clock, fileVars>>

\* lines 78-99: cache test, else read, parse, sort and remember
LoadRead ==
    /\ lpc = "statted"
    /\ lpc' = "idle"
    /\ IF turbines_cache # NoCache /\ turbines_mtime = current_mtime
       THEN /\ load_result' = Loaded(turbines_cache.list)
            /\ UNCHANGED <<turbines_cache, turbines_mtime, observed>>
       ELSE /\ observed' = [read |-> TRUE, text |-> file.content]
            /\ IF JsonParses(file.content)
               THEN /\ turbines_cache' = Cached(BuildCache(JsonLoad(file.content)))
                    /\ turbines_mtime' = current_mtime
                    /\ load_result' = Loaded(turbines_cache'.list)
               ELSE /\ load_result' = HttpError
                    /\ UNCHANGED <<turbines_cache, turbines_mtime>>
    /\ UNCHANGED current_mtime
    /\ UNCHANGED <<samplerVars, genVars, rngVars, runVars, clock, fileVars>>

----------------------------------------------------------------------------
(* Specifications *)

\* arguments of a direct sampler call
MinDists    == {0, 2000, 3000, 4000}
SampleBoxes == {clusters_config[i].zone : i \in 0..6} \cup {<<0, 6, 0, 4>>}

SamplerIdle ==
    /\ count = 0
    /\ zone_bbox = <<0, 0, 0, 0>>
    /\ min_dist = 0
    /\ points = <<>>
    /\ current_min_dist = 0
    /\ added_before = 0
    /\ trial = 0
    /\ accept_log = <<>>
    /\ relaxations = 0
    /\ spc = "idle"

GeneratorAt(position, cfg, zones) ==
    /\ config = FirstClusters(cfg, zones)
    /\ n_zones = zones
    /\ pc = position
    /\ cluster_id = 0
    /\ turbines = <<>>
    /\ turbine_id = 0
    /\ pt_i = 0
    /\ shuffle_i = 0
    /\ metadata = None
    /\ pre_shuffle = <<>>

RandomUnseeded ==
    /\ rng = [seed |-> -1, ahead |-> <<>>]
    /\ tape = [seed |-> -1, vals |-> <<>>]

ConsumerIdle ==
    /\ turbines_cache = NoCache
    /\ turbines_mtime = NoMtime
    /\ lpc = "idle"
    /\ current_mtime = NoMtime
    /\ observed = NothingRead
    /\ load_result = NotCalled

Disk ==
    /\ file \in {Absent, PrevArtifact}
    /\ dir_exists \in BOOLEAN
    /\ file.exists => dir_exists

\* one call of sample_distributed_points with arbitrary arguments
InitSampler ==
    /\ count \in 0..MaxCount
    /\ zone_bbox \in SampleBoxes
    /\ min_dist \in MinDists
    /\ points = <<>>
    /\ current_min_dist = min_dist
    /\ added_before = 0
    /\ trial = 0
    /\ accept_log = <<>>
    /\ relaxations = 0
    /\ spc = "while"
    /\ GeneratorAt("none", clusters_config, 0)
    /\ RandomUnseeded
    /\ run = 1 /\ runs_total = 1 /\ first_out = None
    /\ clock = 1
    /\ file = Absent /\ dir_exists = FALSE
    /\ ConsumerIdle

NextSampler == WhileTest \/ Trial \/ AfterFor

SamplerSpec == InitSampler /\ [][NextSampler]_vars

\* the sampler's steps are taken as long as one is possible
FairSamplerSpec == SamplerSpec /\ WF_vars(NextSampler)

\* one run of generate_turbines
Init ==
    /\ SamplerIdle
    /\ GeneratorAt("pending", clusters_config, NZones)
    /\ RandomUnseeded
    /\ run = 1 /\ runs_total = 1 /\ first_out = None
    /\ clock = 1
    /\ Disk
    /\ ConsumerIdle

Next ==
    \/ Start \/ CallSampler \/ WhileTest \/ Trial \/ AfterFor
    \/ SamplerReturn \/ SamplerRaise \/ AssignTurbine \/ Shuffle
    \/ Finalize \/ OpenFile \/ WriteChunk

Spec == Init /\ [][Next]_vars

\* generate_turbines run twice, each run a process of its own
InitReplay ==
    /\ SamplerIdle
    /\ GeneratorAt("pending", light_config, ReplayZones)
    /\ RandomUnseeded
    /\ run = 1 /\ runs_total = 2 /\ first_out = None
    /\ clock = 1
    /\ file = Absent /\ dir_exists = FALSE
    /\ ConsumerIdle

NextReplay == Next \/ Rerun \/ Tick

ReplaySpec == InitReplay /\ [][NextReplay]_vars

\* one run of generate_turbines beside a server that calls load_turbines
InitServe ==
    /\ SamplerIdle
    /\ GeneratorAt("pending", clusters_config, ServeZones)
    /\ RandomUnseeded
    /\ run = 1 /\ runs_total = 1 /\ first_out = None
    /\ clock = 1
    /\ Disk
    /\ ConsumerIdle

NextServe == Next \/ LoadStat \/ LoadRead \/ Tick

ServeSpec == InitServe /\ [][NextServe]_vars

----------------------------------------------------------------------------
(* Properties of sample_distributed_points, checked under SamplerSpec *)

Returned == spc = "returned"
Raised   == spc = "raised"

\* C1: when the sampler returns, the list holds exactly count points and
\* no two of them are equal.
C1_ExactCountDistinct ==
    Returned =>
        /\ Len(points) = count
        /\ \A i, j \in 1..Len(points) : i # j => points[i] # points[j]

\* a call that returned three points
C1_Witness == Returned /\ count = 3 /\ Len(points) = 3

\* C2 as stated: every stored (rounded) point passes the polygon test.
C2_StoredInside ==
    \A k \in 1..Len(points) :
        point_in_polygon(points[k][2], points[k][1], zealand_polygon)

\* C2, amended: every stored point is the rounding of a candidate that
\* passed the polygon test when it was accepted.
C2_CandidateInside ==
    /\ Len(accept_log) = Len(points)
    /\ \A k \in 1..Len(points) :
          /\ point_in_polygon(accept_log[k].lon, accept_log[k].lat,
                              zealand_polygon)
          /\ points[k] = <<Round6(accept_log[k].lat), Round6(accept_log[k].lon)>>

\* a stored point that is itself outside the polygon
C2_Witness ==
    \E k \in 1..Len(points) :
        ~point_in_polygon(points[k][2], points[k][1], zealand_polygon)

\* p before q, no relaxation between their acceptances
SameEpoch(i, j) == i < j /\ accept_log[i].epoch = accept_log[j].epoch

\* C3 as stated: two stored points accepted with no relaxation in between
\* are at least the later one's acceptance threshold apart.
C3_StoredSpacing ==
    \A i, j \in 1..Len(points) :
        SameEpoch(i, j) =>
            Dist2(points[j][1], points[j][2], points[i]) * DistScale * DistScale
                >= accept_log[j].thr * accept_log[j].thr

\* C3, amended: the unrounded candidate of the later point is at least its
\* acceptance threshold away from the stored earlier point.
C3_CandidateSpacing ==
    \A i, j \in 1..Len(points) :
        SameEpoch(i, j) =>
            Dist2(accept_log[j].lat, accept_log[j].lon, points[i])
                * DistScale * DistScale
                >= accept_log[j].thr * accept_log[j].thr

\* two stored points of one epoch closer than the threshold
C3_Witness ==
    \E i, j \in 1..Len(points) :
        /\ SameEpoch(i, j)
        /\ Dist2(points[j][1], points[j][2], points[i]) * DistScale * DistScale
              < accept_log[j].thr * accept_log[j].thr

\* C4: a call with a positive initial distance ends, by return or by the
\* error, and every outer pass that ends either has accepted a point or
\* multiplies the threshold by 0.9.
C4_Terminates ==
    /\ (min_dist > 0) => <>(Returned \/ Raised)
    /\ [][spc = "afterfor" =>
            \/ Len(points) > added_before
            \/ 10 * current_min_dist' = 9 * current_min_dist]_vars

\* a call that ended after two stagnant passes
C4_Witness == Raised /\ min_dist > 0 /\ relaxations >= 2

\* C5 as stated: the error is raised only with the threshold below the
\* floor and with fewer than count points accepted.
C5_RaisedOnlyUnderfilled ==
    Raised =>
        /\ current_min_dist < Floor
        /\ Len(points) < count

----------------------------------------------------------------------------
(* Properties of generate_turbines, checked under Spec *)

RECURSIVE SumCounts(_)
SumCounts(n) == IF n = 0 THEN 0 ELSE SumCounts(n - 1) + config[n - 1].count

Occurrences(seq, e) == Cardinality({k \in 1..Len(seq) : seq[k] = e})

InCluster(seq, cid) == Cardinality({k \in 1..Len(seq) : seq[k].clusterId = cid})

\* the dataset exists from the creation of the metadata on
Emitted == pc \in {"open", "writing", "done"}

\* C6: in an emitted dataset the configured counts add up to
\* metadata.total_turbines and to the length of the turbine list, each
\* cluster has as many turbines as metadata.cluster_distribution says, and
\* the finished file holds that dataset.
C6_CountsAgree ==
    /\ Emitted =>
          /\ SumCounts(n_zones) = metadata.total_turbines
          /\ metadata.total_turbines = Len(turbines)
          /\ \A cid \in 0..(n_zones - 1) :
                InCluster(turbines, cid) = metadata.cluster_distribution[cid]
    /\ pc = "done" =>
          /\ JsonParses(file.content)
          /\ JsonLoad(file.content) = output_data

\* a finished run whose third cluster holds two turbines
C6_Witness ==
    pc = "done" /\ Len(turbines) = 4 /\ InCluster(turbines, 2) = 2

DigitValue(c) == CharCode(c) - 48

\* id is "T" followed by exactly three digits that spell n
SpellsId(id, n) ==
    /\ Len(id) = 4
    /\ id[1] = "T"
    /\ \A d \in 2..4 : DigitValue(id[d]) \in 0..9
    /\ 100 * DigitValue(id[2]) + 10 * DigitValue(id[3]) + DigitValue(id[4]) = n

\* C7: before the shuffle the k-th turbine has the identifier of number
\* k - 1, clusters follow each other in processing order and the last
\* cluster's turbines are its points in acceptance order; from the start of
\* the shuffle on the list holds the same turbines, each as often as
\* before.
C7_DenseIdsShuffleKeeps ==
    /\ pc = "assembled" =>
          /\ Len(turbines) = SumCounts(n_zones)
          /\ \A k \in 1..Len(turbines) : SpellsId(turbines[k].turbineId, k - 1)
          /\ \A k \in 1..(Len(turbines) - 1) :
                turbines[k].clusterId <= turbines[k + 1].clusterId
          /\ \A k \in 1..Len(points) :
                LET t == turbines[Len(turbines) - Len(points) + k]
                IN  <<t.latitude, t.longitude>> = points[k]
    /\ pc \in {"shuffle", "finalized", "open", "writing", "done"} =>
          /\ Len(turbines) = Len(pre_shuffle)
          /\ \A k \in 1..Len(pre_shuffle) :
                Occurrences(turbines, pre_shuffle[k]) = 1
          /\ \A k \in 1..Len(pre_shuffle) :
                SpellsId(pre_shuffle[k].turbineId, k - 1)

\* a shuffle that changed the order of four turbines
C7_Witness ==
    pc = "finalized" /\ Len(turbines) = 4 /\ turbines # pre_shuffle

PcSteps ==
    { <<"pending", "zone">>, <<"zone", "sampling">>, <<"sampling", "assign">>,
      <<"sampling", "failed">>, <<"assign", "zone">>,
      <<"assign", "assembled">>, <<"assembled", "shuffle">>,
      <<"assembled", "finalized">>, <<"shuffle", "finalized">>,
      <<"finalized", "open">>, <<"open", "writing">>, <<"writing", "done">> }

\* C9: the run goes from pending through the clusters in ascending order,
\* each sampled with its own configuration, to assembled, shuffled and
\* written; the file changes only after the shuffle; a sampler error ends
\* the run in failed, where nothing changes any more.
C9_Lifecycle ==
    /\ [][pc' # pc => <<pc, pc'>> \in PcSteps]_vars
    /\ [][pc = "pending" => cluster_id' = 0]_vars
    /\ [][pc # "pending" => cluster_id' \in {cluster_id, cluster_id + 1}]_vars
    /\ [][(pc = "zone" /\ pc' = "sampling") =>
            /\ count' = config[cluster_id].count
            /\ zone_bbox' = config[cluster_id].zone
            /\ min_dist' = config[cluster_id].min_dist]_vars
    /\ [](pc \in {"assembled", "shuffle", "finalized", "open", "writing", "done"}
            => cluster_id = n_zones)
    /\ [][file' # file => pc \in {"open", "writing"}]_vars
    /\ [][dir_exists' # dir_exists => pc = "finalized"]_vars
    /\ [][(pc = "sampling" /\ spc = "raised") => pc' = "failed"]_vars
    /\ [][pc # "failed"]_vars

\* a run that failed in its third cluster beside an earlier artifact
C9_Witness ==
    pc = "failed" /\ cluster_id = 2 /\ Len(turbines) = 2 /\ file = PrevArtifact

\* the candidates that round(x, 6) can have moved to the stored point p
WithinRounding(p) ==
    {<<p[1] + a, p[2] + b>> : a, b \in -(Grain \div 2)..(Grain \div 2)}

\* p and q are at least m apart
Apart(p, q, m) == Dist2(p[1], p[2], q) * DistScale * DistScale >= m * m

\* C14: when a call with count >= 1 and d0 >= 0.003 returns, the threshold
\* is still >= 0.003; every point was accepted under a threshold no smaller
\* than the final one, with its candidate that far from every point
\* accepted before it, whatever the epochs of the two; so any two returned
\* points are the final threshold apart up to the rounding of the later one.
C14_GlobalSpacing ==
    (Returned /\ count >= 1 /\ min_dist >= Floor) =>
        /\ current_min_dist >= Floor
        /\ \A j \in 1..Len(points) :
              /\ accept_log[j].thr >= current_min_dist
              /\ <<accept_log[j].lat, accept_log[j].lon>>
                    \in WithinRounding(points[j])
              /\ \A i \in 1..(j - 1) :
                    /\ Apart(<<accept_log[j].lat, accept_log[j].lon>>,
                             points[i], accept_log[j].thr)
                    /\ \E q \in WithinRounding(points[j]) :
                          Apart(q, points[i], current_min_dist)

\* a returned list with two points of different epochs that are, as
\* stored, closer than the final threshold
C14_Witness ==
    /\ Returned /\ min_dist >= Floor
    /\ \E i, j \in 1..Len(points) :
          /\ i < j
          /\ accept_log[i].epoch < accept_log[j].epoch
          /\ ~Apart(points[j], points[i], current_min_dist)

RECURSIVE Pow(_, _)
Pow(b, e) == IF e = 0 THEN 1 ELSE b * Pow(b, e - 1)

\* the step that ends an outer pass
PassEnds == spc = "afterfor" /\ spc' # "afterfor"

\* C13: in a call with d0 >= 0 the threshold starts at d0 and never
\* increases; it changes only at the end of an outer pass, is multiplied by
\* 0.9 there when the pass accepted no point and is left alone when the
\* pass accepted one; at all times it is d0 * 0.9^k, k the number of passes
\* so far that accepted no point.
C13_RelaxationRule ==
    /\ (spc = "while" /\ relaxations = 0 /\ points = <<>>)
          => current_min_dist = min_dist
    /\ current_min_dist * Pow(10, relaxations) = min_dist * Pow(9, relaxations)
    /\ [][current_min_dist' <= current_min_dist]_vars
    /\ [][current_min_dist' # current_min_dist => PassEnds]_vars
    /\ [][PassEnds =>
            IF Len(points) = added_before
            THEN /\ 10 * current_min_dist' = 9 * current_min_dist
                 /\ relaxations' = relaxations + 1
            ELSE /\ current_min_dist' = current_min_dist
                 /\ relaxations' = relaxations]_vars

\* a call that returned two points after two passes without an acceptance
C13_Witness ==
    Returned /\ Len(points) = 2 /\ relaxations = 2 /\ current_min_dist = 3240

\* C11 as stated: a call with a non-positive count or a non-positive
\* minimum distance never returns a list.
C11_NonPositiveRejected ==
    (count <= 0 \/ min_dist <= 0) => ~Returned

----------------------------------------------------------------------------
(* Properties of repeated runs, checked under ReplaySpec *)

SecondRun == run = 2

\* C8 as stated: the second run's dataset equals the first run's, metadata
\* included.
C8_ByteIdentical ==
    (SecondRun /\ pc = "done") =>
        /\ ~first_out.failed
        /\ first_out.assembled = pre_shuffle
        /\ first_out.output = output_data

TimeErased(md) == [md EXCEPT !.generated_at = 0]

\* C8, amended: the second run has the same list before the shuffle, the
\* same list after it and the same metadata except generated_at; if the
\* first run failed, the second fails in the same cluster.
C8_IdenticalButTimestamp ==
    /\ (SecondRun /\ pc \in {"assembled", "shuffle", "finalized", "open",
                             "writing", "done"}) => ~first_out.failed
    /\ (SecondRun /\ pc = "assembled") => turbines = first_out.assembled
    /\ (SecondRun /\ pc = "done") =>
          /\ first_out.assembled = pre_shuffle
          /\ first_out.output.turbines = turbines
          /\ TimeErased(first_out.output.metadata) = TimeErased(metadata)
    /\ (SecondRun /\ pc = "failed") =>
          /\ first_out.failed
          /\ first_out.zone = cluster_id

\* a second run that ended at another time with a shuffled list
C8_Witness ==
    /\ SecondRun /\ pc = "done"
    /\ turbines # pre_shuffle
    /\ metadata.generated_at # first_out.output.metadata.generated_at

----------------------------------------------------------------------------
(* Properties of the artifact as a consumer sees it, checked under
   ServeSpec *)

\* C10 as stated: whatever load_turbines reads is the whole earlier
\* artifact or the whole new one.
C10_NoPartialRead ==
    observed.read =>
        \/ observed.text = PrevArtifact.content
        \/ /\ Emitted
           /\ observed.text = JsonDump(output_data)

\* the second half of a load_turbines call: the step after the stat
LoadCompletes == lpc = "statted" /\ lpc' = "idle"

\* the cache test of the call, on the mtime the call has read
CacheCurrent == turbines_cache # NoCache /\ turbines_mtime = current_mtime

\* C12 as stated: a call returns the cached list only when a cache exists
\* and its mtime is the file's; otherwise it re-reads, returns the turbines
\* of the file's content sorted by id and records the new mtime.
C12_CacheKeyedByMtime ==
    [][LoadCompletes =>
          IF CacheCurrent
          THEN /\ load_result' = Loaded(turbines_cache.list)
               /\ UNCHANGED <<turbines_cache, turbines_mtime>>
          ELSE /\ observed' = [read |-> TRUE, text |-> file.content]
               /\ JsonParses(file.content)
               /\ load_result' = Loaded(BuildCache(JsonLoad(file.content)))
               /\ turbines_cache' = Cached(load_result'.turbines)
               /\ turbines_mtime' = current_mtime]_vars

====
